---- MODULE Spec2Model ----
(***************************************************************************)
(* CodePack: main, cloneRepos (dispatcher, worker pool, result collector)  *)
(* and the archive phase, as a state machine.                              *)
(*                                                                         *)
(* The repository holds two builds of the program: src/main.go and an      *)
(* earlier one, src/unnamed/part_000.  The variable `build` says which one *)
(* runs; where the two differ there is one action per build.               *)
(***************************************************************************)
EXTENDS Integers, Sequences, FiniteSets, TLC

\* ------------------------------------------------------------------ bounds
MaxRepos == 2
MaxWorkers == 2

\* ------------------------------------------------------- program constants
DefaultWorkers == 10
ExitErrCode == -1
ExitNilCode == 1
PanicStatus == 2

Builds == {"main.go", "part_000"}
Jobs == 1..MaxRepos
Pool == 1..MaxWorkers
\* the values of the -workers flag: flag.Int accepts every integer, also 0 and below
WorkerFlags == {-1} \cup (0..MaxWorkers)
\* the lines the program can log
Kinds == {"Cloning", "failed", "Cloned"}
Lines == (Kinds \X Jobs)
         \cup ({"Output File", "Configuration File", "Skipping Tarball.", "Cloning complete",
                "Moving", "Compressing files...", "Cleaning up temporary directory..."}
               \X {0})

VARIABLES
    build,      \* which build of the program runs
    mpc,        \* main goroutine: position in main / cloneRepos
    skipTar,    \* *skipTarPtr
    workers,    \* the package variable `workers`
    repos,      \* len(config.Repos)
    staging,    \* the temporary directory: "none", "temp", "renamed", "removed"
    outFile,    \* the output file: "none", "empty", "archive", "partial"
    pending,    \* the panic in flight (part_000): its message, or <<>>
    stderr,     \* what the process wrote to the user outside the log
    exitCode,   \* the exit status of the process, -1 while it runs
    wg,         \* sync.WaitGroup counter
    failures,   \* atomic.Int32
    successes,  \* atomic.Int32
    iter,       \* index of the dispatch loop over config.Repos
    nworkers,   \* worker goroutines started
    wpc,        \* worker goroutine: position in its loop
    wreq,       \* worker: the request it holds
    werr,       \* worker: err of bareMirrorClone
    cpc,        \* collector goroutine: position
    cmsg,       \* collector: msg
    logv,       \* log.Println / log.Printf: how often each line was written so far
    ret,        \* cloneRepos' return value: <<>> before it returns, then <<n>>: n = 0 is nil,
                \* n > 0 the error "n failure(s) cloning repositories, ..."
    cloned,     \* history: per job, the results of its bareMirrorClone calls
    claimed,    \* history: per job, how often a worker received it from repoChan
    compressCalls, \* history: calls of compress
    dest,       \* config.Repos: per repository, its destination path.Join(repo.Path, repo.Name)
    archive,    \* the names of the entries written to the tar stream, in order
    walkFail,   \* history: the I/O failure that hit compress' walk, <<>> if none
    archRet     \* what compressToFile / compress returned: "pending", "nil", "err"
vars == <<build, mpc, skipTar, workers, repos, staging, outFile, pending, stderr,
          exitCode, wg, failures, successes, iter, nworkers, wpc, wreq, werr,
          cpc, cmsg, logv, ret, cloned, claimed, compressCalls,
                   dest, archive, walkFail, archRet>>

mainVars == <<skipTar, workers, repos, staging, outFile, pending, stderr, exitCode,
              compressCalls,
                   dest, archive, walkFail, archRet>>
poolVars == <<wg, failures, successes, iter, nworkers, wpc, wreq, werr, cpc, cmsg,
              logv, ret, cloned, claimed>>

Running == exitCode = -1

\* os.Exit(code): the status the parent sees is the low 8 bits
ExitStatus(code) == code % 256

\* func Exit(err error)
Exit(isErr) == IF isErr THEN ExitStatus(ExitErrCode) ELSE ExitStatus(ExitNilCode)

\* int(math.Min(float64(workers), float64(len(config.Repos))))
Min(a, b) == IF a < b THEN a ELSE b

\* a pool of one worker whatever the flag says
PoolSizeSingle(w, n) == Min(1, n)

\* the pool sized by the flag alone
PoolSizeFlagOnly(w, n) == w

PoolSize(w, n) == Min(w, n)

\* fmt.Sprintf of the three messages of a worker, the sentinel, a fixed log line
Msg(kind, job) == <<kind, job>>
DoneMsg == <<"done", 0>>
Line(text) == <<text, 0>>

\* log.Println(l)
Log(lg, l) == [lg EXCEPT ![l] = @ + 1]

\* atomic.Int32.Add(1)
Int32Add1(x) == IF x = 2147483647 THEN (0 - 2147483647) - 1 ELSE x + 1

Init ==
    /\ build \in Builds
    /\ mpc = "parse"
    /\ skipTar = FALSE
    /\ workers = DefaultWorkers
    /\ repos = 0
    /\ staging = "none"
    /\ outFile = "none"
    /\ pending = <<>>
    /\ stderr = <<>>
    /\ exitCode = -1
    /\ wg = 0
    /\ failures = 0
    /\ successes = 0
    /\ iter = 0
    /\ nworkers = 0
    /\ wpc = [w \in Pool |-> "none"]
    /\ wreq = [w \in Pool |-> 0]
    /\ werr = [w \in Pool |-> FALSE]
    /\ cpc = "none"
    /\ cmsg = <<>>
    /\ logv = [l \in Lines |-> 0]
    /\ ret = <<>>
    /\ cloned = [j \in Jobs |-> <<>>]
    /\ claimed = [j \in Jobs |-> 0]
    /\ compressCalls = 0
    /\ dest = [j \in Jobs |-> ToString(j)]
    /\ archive = <<>>
    /\ walkFail = <<>>
    /\ archRet = "pending"

\* ------------------------------------------------------------------- main
\* -version: print the version, Exit(nil)
MainVersion ==
    /\ Running /\ mpc = "parse" /\ build = "main.go"
    /\ exitCode' = Exit(FALSE)
    /\ mpc' = "exited"
    /\ UNCHANGED <<build, skipTar, workers, repos, staging, outFile, pending, stderr,
                   compressCalls,
                   dest, archive, walkFail, archRet>>
    /\ UNCHANGED poolVars

\* flag.Parse and workers = *workersPtr
MainFlags ==
    /\ Running /\ mpc = "parse"
    /\ \E s \in BOOLEAN, w \in WorkerFlags :
        /\ skipTar' = (IF build = "main.go" THEN s ELSE FALSE)
        /\ workers' = w
    /\ mpc' = IF build = "main.go" THEN "openlog" ELSE "banner"
    /\ UNCHANGED <<build, repos, staging, outFile, pending, stderr, exitCode,
                   compressCalls,
                   dest, archive, walkFail, archRet>>
    /\ UNCHANGED poolVars

\* -log: os.OpenFile, Exit on error
MainOpenLog ==
    /\ Running /\ mpc = "openlog"
    /\ \E given \in BOOLEAN, err \in BOOLEAN :
        IF given /\ err
        THEN /\ exitCode' = Exit(TRUE)
             /\ mpc' = "exited"
        ELSE /\ exitCode' = exitCode
             /\ mpc' = "banner"
    /\ UNCHANGED <<build, skipTar, workers, repos, staging, outFile, pending, stderr,
                   compressCalls,
                   dest, archive, walkFail, archRet>>
    /\ UNCHANGED poolVars

MainBanner ==
    /\ Running /\ mpc = "banner"
    /\ logv' = LET l2 == Log(Log(logv, Line("Output File")), Line("Configuration File"))
               IN  IF skipTar THEN Log(l2, Line("Skipping Tarball.")) ELSE l2
    /\ mpc' = "config"
    /\ UNCHANGED <<build>>
    /\ UNCHANGED mainVars
    /\ UNCHANGED <<wg, failures, successes, iter, nworkers, wpc, wreq, werr, cpc, cmsg,
                   ret, cloned, claimed>>

\* what a failure of main does before cloneRepos is called:
\* main.go Exit(err), part_000 panic(err) with no deferred call registered
FailEarly(what) ==
    /\ mpc' = "exited"
    /\ IF build = "main.go"
       THEN /\ exitCode' = Exit(TRUE)
            /\ stderr' = stderr
       ELSE /\ exitCode' = PanicStatus
            /\ stderr' = Append(stderr, <<"panic", what, 0>>)

\* the repository lists of length n the decoder hands over: nothing checks names or
\* paths, so a list whose second entry repeats the first's path and name is accepted
\* like one with distinct destinations
DestChoices(n) ==
    {[j \in Jobs |-> ToString(j)]}
    \cup (IF n >= 2 THEN {[j \in Jobs |-> IF j = 2 THEN ToString(1) ELSE ToString(j)]}
          ELSE {})

\* config, err := ConfigFromFile(...)
MainConfig ==
    /\ Running /\ mpc = "config"
    /\ \/ /\ FailEarly("config")
          /\ UNCHANGED <<repos, dest>>
       \/ /\ \E n \in 0..MaxRepos :
                /\ repos' = n
                /\ dest' \in DestChoices(n)
          /\ mpc' = IF build = "main.go" THEN "mkdir" ELSE "create"
          /\ UNCHANGED <<exitCode, stderr>>
    /\ UNCHANGED <<build, skipTar, workers, staging, outFile, pending, compressCalls,
                   archive, walkFail, archRet>>
    /\ UNCHANGED poolVars

\* part_000: outputFile, err := os.Create(*outFilePtr), before any clone
MainCreateOut ==
    /\ Running /\ mpc = "create"
    /\ \/ /\ FailEarly("create")
          /\ UNCHANGED outFile
       \/ /\ outFile' = "empty"
          /\ mpc' = "mkdir"
          /\ UNCHANGED <<exitCode, stderr>>
    /\ UNCHANGED <<build, skipTar, workers, repos, staging, pending, compressCalls,
                   dest, archive, walkFail, archRet>>
    /\ UNCHANGED poolVars

\* tempDir, err := os.MkdirTemp(...); defer cleanup
MainMkdirTemp ==
    /\ Running /\ mpc = "mkdir"
    /\ \/ /\ FailEarly("mkdir")
          /\ UNCHANGED staging
       \/ /\ staging' = "temp"
          /\ mpc' = "cloneRepos"
          /\ UNCHANGED <<exitCode, stderr>>
    /\ UNCHANGED <<build, skipTar, workers, repos, outFile, pending, compressCalls,
                   dest, archive, walkFail, archRet>>
    /\ UNCHANGED poolVars

\* ------------------------------------------------------------- cloneRepos
\* the dispatch loop `for _, repo := range config.Repos`: where main goes with index i
LoopNext(i) == IF i <= repos THEN "add" ELSE "wait1"

\* a Wait that does not wait
WaitReturnsAtOnce == TRUE

\* wg.Wait() returns when the counter is zero
WaitReturns == wg = 0

\* entry of cloneRepos: fresh wg and counters, the channels, the worker goroutines
\* and the collector goroutine.  A started goroutine first blocks at its receive.
CloneReposStart ==
    /\ Running /\ mpc = "cloneRepos"
    /\ wg' = 0 /\ failures' = 0 /\ successes' = 0
    /\ nworkers' = (IF PoolSize(workers, repos) > 0 THEN PoolSize(workers, repos) ELSE 0)
    /\ wpc' = [w \in Pool |-> IF w <= PoolSize(workers, repos) THEN "recv" ELSE "none"]
    /\ cpc' = "recv"
    /\ iter' = 1
    /\ mpc' = LoopNext(1)
    /\ UNCHANGED <<build, wreq, werr, cmsg, logv, ret, cloned, claimed>>
    /\ UNCHANGED mainVars

\* the dispatch loop left once a clone has failed
DispatchAddAbortOnFailure ==
    /\ Running /\ mpc = "add"
    /\ IF failures # 0
       THEN /\ mpc' = "wait1"
            /\ wg' = wg
       ELSE /\ mpc' = "send"
            /\ wg' = wg + 1
    /\ UNCHANGED <<build, failures, successes, iter, nworkers, wpc, wreq, werr, cpc, cmsg,
                   logv, ret, cloned, claimed>>
    /\ UNCHANGED mainVars

\* wg.Add(1) of the dispatch loop
DispatchAdd ==
    /\ Running /\ mpc = "add"
    /\ wg' = wg + 1
    /\ mpc' = "send"
    /\ UNCHANGED <<build, failures, successes, iter, nworkers, wpc, wreq, werr, cpc, cmsg,
                   logv, ret, cloned, claimed>>
    /\ UNCHANGED mainVars

\* a goroutine per request: the job also goes to a worker that was never started
DispatchSpawn(w) ==
    /\ Running /\ mpc = "send" /\ wpc[w] \in {"recv", "none"}
    /\ wreq' = [wreq EXCEPT ![w] = iter]
    /\ claimed' = [claimed EXCEPT ![iter] = @ + 1]
    /\ wpc' = [wpc EXCEPT ![w] = "sendstart"]
    /\ iter' = iter + 1
    /\ mpc' = LoopNext(iter + 1)
    /\ UNCHANGED <<build, wg, failures, successes, nworkers, werr, cpc, cmsg, logv, ret,
                   cloned>>
    /\ UNCHANGED mainVars

\* repoChan <- request{...} meets req := <-repoChan of worker w (unbuffered)
Dispatch(w) ==
    /\ Running /\ mpc = "send" /\ wpc[w] = "recv"
    /\ wreq' = [wreq EXCEPT ![w] = iter]
    /\ claimed' = [claimed EXCEPT ![iter] = @ + 1]
    /\ wpc' = [wpc EXCEPT ![w] = "sendstart"]
    /\ iter' = iter + 1
    /\ mpc' = LoopNext(iter + 1)
    /\ UNCHANGED <<build, wg, failures, successes, nworkers, werr, cpc, cmsg, logv, ret,
                   cloned>>
    /\ UNCHANGED mainVars

\* a send on resultChan meets msg := <-resultChan of the collector (unbuffered)
ResultSend(m) ==
    /\ cpc = "recv"
    /\ cmsg' = m
    /\ cpc' = "got"

\* resultChan <- "Cloning %s to path %s"
WorkerSendStart(w) ==
    /\ Running /\ wpc[w] = "sendstart"
    /\ ResultSend(Msg("Cloning", wreq[w]))
    /\ wpc' = [wpc EXCEPT ![w] = "clone"]
    /\ UNCHANGED <<build, mpc, wg, failures, successes, iter, nworkers, wreq, werr, logv,
                   ret, cloned, claimed>>
    /\ UNCHANGED mainVars

\* err := bareMirrorClone(...) of worker w never returns (at most one call of a run)
WorkerHang(w) ==
    /\ Running /\ wpc[w] = "clone"
    /\ \A v \in Pool : wpc[v] # "hung"
    /\ wpc' = [wpc EXCEPT ![w] = "hung"]
    /\ UNCHANGED <<build, mpc, wg, failures, successes, iter, nworkers, wreq, werr, cpc,
                   cmsg, logv, ret, cloned, claimed>>
    /\ UNCHANGED mainVars

\* where a worker goes when bareMirrorClone has returned nil
AfterCloneOk == IF build = "main.go" THEN "sendcloned" ELSE "addsuccess"

\* err := bareMirrorClone(req.url, req.path, auth) returns
WorkerClone(w) ==
    /\ Running /\ wpc[w] = "clone"
    /\ \E err \in BOOLEAN :
        /\ werr' = [werr EXCEPT ![w] = err]
        /\ cloned' = [cloned EXCEPT ![wreq[w]] = Append(@, IF err THEN "fail" ELSE "ok")]
        /\ wpc' = [wpc EXCEPT ![w] = IF err THEN "sendfailed" ELSE AfterCloneOk]
    /\ UNCHANGED <<build, mpc, wg, failures, successes, iter, nworkers, wreq, cpc, cmsg,
                   logv, ret, claimed>>
    /\ UNCHANGED mainVars

\* resultChan <- "Cloning %s to path %s failed: %v"
WorkerSendFailed(w) ==
    /\ Running /\ wpc[w] = "sendfailed"
    /\ ResultSend(Msg("failed", wreq[w]))
    /\ wpc' = [wpc EXCEPT ![w] = "addfailure"]
    /\ UNCHANGED <<build, mpc, wg, failures, successes, iter, nworkers, wreq, werr, logv,
                   ret, cloned, claimed>>
    /\ UNCHANGED mainVars

\* the failure not counted
WorkerAddFailureLost(w) ==
    /\ Running /\ wpc[w] = "addfailure"
    /\ wpc' = [wpc EXCEPT ![w] = "wgdone"]
    /\ UNCHANGED <<build, mpc, wg, failures, successes, iter, nworkers, wreq, werr, cpc,
                   cmsg, logv, ret, cloned, claimed>>
    /\ UNCHANGED mainVars

\* failures.Add(1)
WorkerAddFailure(w) ==
    /\ Running /\ wpc[w] = "addfailure"
    /\ failures' = Int32Add1(failures)
    /\ wpc' = [wpc EXCEPT ![w] = "wgdone"]
    /\ UNCHANGED <<build, mpc, wg, successes, iter, nworkers, wreq, werr, cpc, cmsg, logv,
                   ret, cloned, claimed>>
    /\ UNCHANGED mainVars

\* main.go: resultChan <- "Cloned %s to path %s"
WorkerSendCloned(w) ==
    /\ Running /\ wpc[w] = "sendcloned"
    /\ ResultSend(Msg("Cloned", wreq[w]))
    /\ wpc' = [wpc EXCEPT ![w] = "addsuccess"]
    /\ UNCHANGED <<build, mpc, wg, failures, successes, iter, nworkers, wreq, werr, logv,
                   ret, cloned, claimed>>
    /\ UNCHANGED mainVars

\* the success not counted
WorkerAddSuccessLost(w) ==
    /\ Running /\ wpc[w] = "addsuccess"
    /\ wpc' = [wpc EXCEPT ![w] = "wgdone"]
    /\ UNCHANGED <<build, mpc, wg, failures, successes, iter, nworkers, wreq, werr, cpc,
                   cmsg, logv, ret, cloned, claimed>>
    /\ UNCHANGED mainVars

\* successes.Add(1)
WorkerAddSuccess(w) ==
    /\ Running /\ wpc[w] = "addsuccess"
    /\ successes' = Int32Add1(successes)
    /\ wpc' = [wpc EXCEPT ![w] = "wgdone"]
    /\ UNCHANGED <<build, mpc, wg, failures, iter, nworkers, wreq, werr, cpc, cmsg, logv,
                   ret, cloned, claimed>>
    /\ UNCHANGED mainVars

\* wg.Done() of a worker, then back to the top of its loop (req and err are locals
\* of one iteration)
WorkerDone(w) ==
    /\ Running /\ wpc[w] = "wgdone"
    /\ wg' = wg - 1
    /\ wpc' = [wpc EXCEPT ![w] = "recv"]
    /\ wreq' = [wreq EXCEPT ![w] = 0]
    /\ werr' = [werr EXCEPT ![w] = FALSE]
    /\ UNCHANGED <<build, mpc, failures, successes, iter, nworkers, cpc, cmsg,
                   logv, ret, cloned, claimed>>
    /\ UNCHANGED mainVars

\* collector: if msg == "done" { log "Cloning complete" ... } else log.Println(msg)
CollectorLog ==
    /\ Running /\ cpc = "got"
    /\ IF cmsg = DoneMsg
       THEN /\ logv' = Log(logv, Line("Cloning complete"))
            /\ cpc' = "wgdone"
       ELSE /\ logv' = Log(logv, cmsg)
            /\ cpc' = "recv"
    /\ UNCHANGED <<build, mpc, wg, failures, successes, iter, nworkers, wpc, wreq, werr,
                   cmsg, ret, cloned, claimed>>
    /\ UNCHANGED mainVars

\* the collector leaving without wg.Done()
CollectorDoneNoWg ==
    /\ Running /\ cpc = "wgdone"
    /\ cpc' = "exited"
    /\ UNCHANGED <<build, mpc, wg, failures, successes, iter, nworkers, wpc, wreq, werr,
                   cmsg, logv, ret, cloned, claimed>>
    /\ UNCHANGED mainVars

\* collector: wg.Done(); break
CollectorDone ==
    /\ Running /\ cpc = "wgdone"
    /\ wg' = wg - 1
    /\ cpc' = "exited"
    /\ UNCHANGED <<build, mpc, failures, successes, iter, nworkers, wpc, wreq, werr, cmsg,
                   logv, ret, cloned, claimed>>
    /\ UNCHANGED mainVars

\* the first wg.Wait()
Wait1 ==
    /\ Running /\ mpc = "wait1"
    /\ WaitReturns
    /\ mpc' = "add2"
    /\ UNCHANGED <<build>> /\ UNCHANGED poolVars /\ UNCHANGED mainVars

\* the collector's wg.Add(1) left out
Add2NoAdd ==
    /\ Running /\ mpc = "add2"
    /\ mpc' = "senddone"
    /\ UNCHANGED <<build>> /\ UNCHANGED poolVars /\ UNCHANGED mainVars

\* wg.Add(1) for the collector
Add2 ==
    /\ Running /\ mpc = "add2"
    /\ wg' = wg + 1
    /\ mpc' = "senddone"
    /\ UNCHANGED <<build, failures, successes, iter, nworkers, wpc, wreq, werr, cpc, cmsg,
                   logv, ret, cloned, claimed>>
    /\ UNCHANGED mainVars

\* resultChan <- "done"
SendDone ==
    /\ Running /\ mpc = "senddone"
    /\ ResultSend(DoneMsg)
    /\ mpc' = "wait2"
    /\ UNCHANGED <<build, wg, failures, successes, iter, nworkers, wpc, wreq, werr, logv,
                   ret, cloned, claimed>>
    /\ UNCHANGED mainVars

\* cloneRepos going on without the second wg.Wait()
Wait2NoWait ==
    /\ Running /\ mpc = "wait2"
    /\ mpc' = "load"
    /\ UNCHANGED <<build>> /\ UNCHANGED poolVars /\ UNCHANGED mainVars

\* the second wg.Wait()
Wait2 ==
    /\ Running /\ mpc = "wait2"
    /\ WaitReturns
    /\ mpc' = "load"
    /\ UNCHANGED <<build>> /\ UNCHANGED poolVars /\ UNCHANGED mainVars

\* if failures.Load() != 0 { ... } ; return nil
LoadFailures ==
    /\ Running /\ mpc = "load"
    /\ IF failures # 0
       THEN /\ mpc' = "format"
            /\ ret' = ret
       ELSE /\ mpc' = "after"
            /\ ret' = <<0>>
    /\ UNCHANGED <<build, wg, failures, successes, iter, nworkers, wpc, wreq, werr, cpc,
                   cmsg, logv, cloned, claimed>>
    /\ UNCHANGED mainVars

\* return fmt.Errorf("%d failure(s) cloning repositories, ...", failures.Load())
FormatError ==
    /\ Running /\ mpc = "format"
    /\ ret' = <<failures>>
    /\ mpc' = "after"
    /\ UNCHANGED <<build, wg, failures, successes, iter, nworkers, wpc, wreq, werr, cpc,
                   cmsg, logv, cloned, claimed>>
    /\ UNCHANGED mainVars

\* ---------------------------------------------------- main, after cloneRepos
\* what a failure of main does once the cleanup is deferred:
\* main.go Exit(err): os.Exit runs no deferred call and writes nothing;
\* part_000 panic(err): the deferred cleanup runs, then the panic is printed
Fail(what, n) ==
    IF build = "main.go"
    THEN /\ exitCode' = Exit(TRUE)
         /\ mpc' = "exited"
         /\ pending' = pending
    ELSE /\ exitCode' = exitCode
         /\ mpc' = "cleanup"
         /\ pending' = <<"panic", what, n>>

\* where main goes when cloneRepos returned nil
AfterCloneOkMain ==
    IF build = "main.go" THEN (IF skipTar THEN "rename" ELSE "compressToFile")
    ELSE "compress"

\* the error of cloneRepos not looked at
MainAfterCloneIgnoreErr ==
    /\ Running /\ mpc = "after"
    /\ mpc' = AfterCloneOkMain
    /\ UNCHANGED <<build, skipTar, workers, repos, staging, outFile, stderr, compressCalls,
                   exitCode, pending, dest, archive, walkFail, archRet>>
    /\ UNCHANGED poolVars

\* if err := cloneRepos(config, tempDir, auth); err != nil { Exit(err) / panic(err) }
MainAfterClone ==
    /\ Running /\ mpc = "after"
    /\ IF ret[1] # 0
       THEN Fail("failures", ret[1])
       ELSE /\ mpc' = AfterCloneOkMain
            /\ UNCHANGED <<exitCode, pending>>
    /\ UNCHANGED <<build, skipTar, workers, repos, staging, outFile, stderr, compressCalls,
                   dest, archive, walkFail, archRet>>
    /\ UNCHANGED poolVars

\* main.go, -skiptar: os.Rename(tempDir, outputFilename); Exit(nil)
MainRename ==
    /\ Running /\ mpc = "rename"
    /\ logv' = Log(logv, Line("Moving"))
    /\ \E err \in BOOLEAN :
        IF err
        THEN /\ exitCode' = Exit(TRUE)
             /\ staging' = staging
        ELSE /\ exitCode' = Exit(FALSE)
             /\ staging' = "renamed"
    /\ mpc' = "exited"
    /\ UNCHANGED <<build, skipTar, workers, repos, outFile, pending, stderr, compressCalls,
                   dest, archive, walkFail, archRet>>
    /\ UNCHANGED <<wg, failures, successes, iter, nworkers, wpc, wreq, werr, cpc, cmsg,
                   ret, cloned, claimed>>

\* main.go: compressToFile: os.Create(target), then compress
MainCompressToFile ==
    /\ Running /\ mpc = "compressToFile"
    /\ \E err \in BOOLEAN :
        IF err
        THEN /\ exitCode' = Exit(TRUE)
             /\ mpc' = "exited"
             /\ outFile' = outFile
             /\ archRet' = "err"
        ELSE /\ exitCode' = exitCode
             /\ mpc' = "compress"
             /\ outFile' = "empty"
             /\ archRet' = archRet
    /\ UNCHANGED <<build, skipTar, workers, repos, staging, pending, stderr, compressCalls,
                   dest, archive, walkFail>>
    /\ UNCHANGED poolVars

\* ---------------------------------------------------------------- compress
\* tempDir, and the clone path path.Join(tempDir, repo.Path, repo.Name) of job j
TempDir == <<"tmp", "codepack">>
ClonePath(j) == Append(TempDir, dest[j])

\* the staging tree at the time of the walk: per destination that was cloned, the
\* bare repository's directory and a (non-empty) file in it
ClonedDests == {dest[j] : j \in {k \in 1..repos : \E i \in 1..Len(cloned[k]) : cloned[k][i] = "ok"}}

RECURSIVE RepoEntries(_)
RepoEntries(j) ==
    IF j > MaxRepos THEN <<>>
    ELSE (IF ToString(j) \in ClonedDests
          THEN << [path |-> Append(TempDir, ToString(j)), dir |-> TRUE],
                  [path |-> Append(TempDir, ToString(j)) \o <<"HEAD">>, dir |-> FALSE] >>
          ELSE <<>>)
         \o RepoEntries(j + 1)

\* filepath.Walk(src, ...): the entries in the order it visits them, the root first
WalkOrder == << [path |-> TempDir, dir |-> TRUE] >> \o RepoEntries(1)

\* filepath.Rel(src, path)
Rel(src, path) ==
    IF Len(path) = Len(src) THEN <<".">> ELSE SubSeq(path, Len(src) + 1, Len(path))

\* the label put in front without cleaning the joined path
EntryNameUncleaned(rel) == <<"codepack">> \o rel

\* header.Name = filepath.ToSlash(filepath.Join("codepack", relPath)): Join cleans
\* the "." of the root away
EntryName(rel) == IF rel = <<".">> THEN <<"codepack">> ELSE <<"codepack">> \o rel

\* p lies strictly below the directory d
Below(p, d) == Len(p) > Len(d) /\ SubSeq(p, 1, Len(d)) = d

\* the I/O failures of one walk: none, or one at the i-th entry:
\*   "lstat"   the callback gets info = nil, tar.FileInfoHeader fails, the walk stops
\*   "readdir" the callback gets the error and ignores it: the directory's header is
\*             written, Walk does not descend, the walk goes on
\*   "header"  tw.WriteHeader fails, the walk stops
\*   "open"    os.Open fails after the header is written, the walk stops
\*   "copy"    io.Copy fails after the header is written, the walk stops
WalkFailures(order) ==
    {<<>>} \cup
    {<<k, i>> : k \in {"lstat", "header"}, i \in 1..Len(order)} \cup
    {f \in {<<k, i>> : k \in {"readdir"}, i \in 1..Len(order)} : order[f[2]].dir} \cup
    {f \in {<<k, i>> : k \in {"open", "copy"}, i \in 1..Len(order)} : ~order[f[2]].dir}

\* does the walk with failure f write the header of the i-th entry
Visited(order, f, i) ==
    IF f = <<>> THEN TRUE
    ELSE IF f[1] \in {"lstat", "header"} THEN i < f[2]
    ELSE IF f[1] \in {"open", "copy"} THEN i <= f[2]
    ELSE ~Below(order[i].path, order[f[2]].path)

RECURSIVE WrittenFrom(_, _, _)
WrittenFrom(order, f, i) ==
    IF i > Len(order) THEN <<>>
    ELSE (IF Visited(order, f, i)
          THEN <<EntryName(Rel(TempDir, order[i].path))>> ELSE <<>>)
         \o WrittenFrom(order, f, i + 1)

\* the error tw.Close() / zr.Close() return: a failed header write sticks in the tar
\* writer, a file cut short leaves bytes missing, or the sink fails at the close.
\* What the walk's callback returned is not among them: filepath.Walk's result is
\* dropped.
CloseFails(f, closeErr) ==
    \/ closeErr
    \/ f # <<>> /\ f[1] \in {"header", "open", "copy"}

\* compress(src, buf)
MainCompress ==
    /\ Running /\ mpc = "compress"
    /\ logv' = Log(logv, Line("Compressing files..."))
    /\ compressCalls' = compressCalls + 1
    /\ \E f \in WalkFailures(WalkOrder), closeErr \in BOOLEAN :
        /\ walkFail' = f
        /\ archive' = WrittenFrom(WalkOrder, f, 1)
        /\ outFile' = (IF f = <<>> /\ ~closeErr THEN "archive" ELSE "partial")
        /\ IF CloseFails(f, closeErr)
           THEN /\ archRet' = "err"
                /\ Fail("compress", 0)
           ELSE /\ archRet' = "nil"
                /\ mpc' = "cleanup"
                /\ UNCHANGED <<exitCode, pending>>
    /\ UNCHANGED <<build, skipTar, workers, repos, staging, stderr, dest>>
    /\ UNCHANGED <<wg, failures, successes, iter, nworkers, wpc, wreq, werr, cpc, cmsg,
                   ret, cloned, claimed>>

\* the status of a process that ends with the panics ps unrecovered, or by
\* returning from main
EndStatus(ps) == IF ps = <<>> THEN 0 ELSE PanicStatus

\* a cleanup that returns without removing anything
MainCleanupNoRemove ==
    /\ Running /\ mpc = "cleanup"
    /\ mpc' = "exited"
    /\ exitCode' = EndStatus(pending)
    /\ stderr' = stderr \o (IF pending = <<>> THEN <<>> ELSE <<pending>>)
    /\ UNCHANGED <<build, skipTar, workers, repos, staging, outFile, pending, compressCalls,
                   dest, archive, walkFail, archRet>>
    /\ UNCHANGED poolVars

\* the deferred cleanup, run when main returns or panics, and the end of the process
MainCleanup ==
    /\ Running /\ mpc = "cleanup"
    /\ mpc' = "exited"
    /\ IF build = "main.go" /\ skipTar
       THEN /\ exitCode' = EndStatus(<<>>)
            /\ UNCHANGED <<logv, staging, stderr>>
       ELSE /\ logv' = Log(logv, Line("Cleaning up temporary directory..."))
            /\ \E err \in BOOLEAN :
                IF err
                THEN /\ staging' = staging
                     /\ IF build = "main.go"
                        THEN /\ exitCode' = Exit(TRUE)
                             /\ stderr' = stderr
                        ELSE /\ stderr' = stderr \o (IF pending = <<>> THEN <<>> ELSE <<pending>>)
                                                 \o << <<"panic", "cleanup", 0>> >>
                             /\ exitCode' = PanicStatus
                ELSE /\ staging' = "removed"
                     /\ stderr' = stderr \o (IF pending = <<>> THEN <<>> ELSE <<pending>>)
                     /\ exitCode' = EndStatus(pending)
    /\ UNCHANGED <<build, skipTar, workers, repos, outFile, pending, compressCalls,
                   dest, archive, walkFail, archRet>>
    /\ UNCHANGED <<wg, failures, successes, iter, nworkers, wpc, wreq, werr, cpc, cmsg,
                   ret, cloned, claimed>>

\* ---------------------------------------------------------- specification
MainStep ==
    \/ MainVersion \/ MainFlags \/ MainOpenLog \/ MainBanner \/ MainConfig
    \/ MainCreateOut \/ MainMkdirTemp \/ MainAfterClone \/ MainRename
    \/ MainCompressToFile \/ MainCompress \/ MainCleanup

OrchestratorStep ==
    \/ CloneReposStart \/ DispatchAdd \/ Wait1 \/ Add2 \/ SendDone \/ Wait2
    \/ LoadFailures \/ FormatError

WorkerStep(w) ==
    \/ Dispatch(w) \/ WorkerSendStart(w) \/ WorkerClone(w) \/ WorkerSendFailed(w)
    \/ WorkerAddFailure(w) \/ WorkerSendCloned(w) \/ WorkerAddSuccess(w) \/ WorkerDone(w)

CollectorStep == CollectorLog \/ CollectorDone

Next ==
    \/ MainStep
    \/ OrchestratorStep
    \/ \E w \in Pool : WorkerStep(w)
    \/ CollectorStep

Spec == Init /\ [][Next]_vars

\* the Go scheduler runs a goroutine that can take a step, and every clone call returns
FairSpec == Spec /\ WF_vars(Next)

\* the runs in which one clone call may never return
HangNext == Next \/ \E w \in Pool : WorkerHang(w)

HangSpec == Init /\ [][HangNext]_vars

\* every call that is not the hung one returns, every goroutine that can step does
FairHangSpec == HangSpec /\ WF_vars(Next)

\* ------------------------------------------------------------- properties
Called == cpc # "none"            \* cloneRepos has been entered
Returned == ret # <<>>       \* cloneRepos has returned
Dispatched == 1..repos            \* the jobs of this run
FailedJobs == {j \in Dispatched : \E i \in 1..Len(cloned[j]) : cloned[j][i] = "fail"}
OkJobs == {j \in Dispatched : \E i \in 1..Len(cloned[j]) : cloned[j][i] = "ok"}
NumFailed == Cardinality(FailedJobs)
Terminal(j) == logv[Msg("failed", j)] + logv[Msg("Cloned", j)]
Idle(w) == wpc[w] \in {"none", "recv"}
\* the collector has taken "done" from resultChan
DoneTaken == (cpc = "got" /\ cmsg = DoneMsg) \/ cpc \in {"wgdone", "exited"}

\* C1: every dispatched job yields exactly one terminal outcome message (Cloned or
\* failed) and the collector takes it exactly once: never more than one per job,
\* and exactly one per job once cloneRepos has returned.
C1_ExactlyOneOutcomePerJob ==
    /\ \A j \in Jobs : Terminal(j) <= 1
    /\ Returned => \A j \in Dispatched : Terminal(j) = 1

\* C2: when the collector takes "done", every job has been dispatched and finished,
\* no worker holds a job or a message, and every message the workers sent has been
\* logged: nothing is dropped.
C2_DoneAfterAllOutcomes ==
    DoneTaken =>
        /\ iter = repos + 1
        /\ \A w \in Pool : Idle(w)
        /\ \A j \in Dispatched :
            /\ claimed[j] = 1 /\ Len(cloned[j]) = 1
            /\ logv[Msg("Cloning", j)] = 1
            /\ logv[Msg("failed", j)] = (IF j \in FailedJobs THEN 1 ELSE 0)
            /\ logv[Msg("Cloned", j)] = (IF j \in OkJobs /\ build = "main.go" THEN 1 ELSE 0)

C2_Witness ==
    /\ cpc = "exited" /\ repos = MaxRepos /\ nworkers >= 2
    /\ FailedJobs # {} /\ OkJobs # {}

\* C3: with at least one configured worker, every call of cloneRepos returns (under
\* fair scheduling, every clone call returning).
C3_CloneReposReturns == (mpc = "cloneRepos" /\ workers >= 1) ~> Returned

C3_Witness ==
    /\ Returned /\ repos = MaxRepos /\ workers >= 1 /\ FailedJobs # {}
    /\ \A w \in Pool : Idle(w)

\* C4: cloneRepos returns an error exactly when some clone failed, and the count in
\* the error is the number of jobs whose clone failed; nil (0) when none failed.
C4_ErrorCountsFailures == Returned => ret[1] = NumFailed

C4_Witness == Returned /\ ret[1] >= 1 /\ OkJobs # {} /\ ret[1] = NumFailed

\* C5: a failed clone aborts nothing: no job is received or cloned twice, and when
\* cloneRepos returns every one of the N jobs has been received by one worker and
\* cloned once, whatever the results.
C5_FailureAbortsNothing ==
    /\ \A j \in Jobs : claimed[j] <= 1 /\ Len(cloned[j]) <= 1
    /\ Returned => \A j \in Dispatched : claimed[j] = 1 /\ Len(cloned[j]) = 1

C5_Witness ==
    /\ Returned /\ repos = MaxRepos /\ 1 \in FailedJobs /\ MaxRepos \in OkJobs
    /\ ret[1] >= 1

\* C6: with an empty repository list cloneRepos starts no worker and calls no clone,
\* and it returns nil, after the collector has logged "Cloning complete" and exited.
C6_EmptyListSucceeds ==
    (Called /\ repos = 0) =>
        /\ nworkers = 0
        /\ \A w \in Pool : wpc[w] = "none"
        /\ \A j \in Jobs : claimed[j] = 0 /\ cloned[j] = <<>>
        /\ Returned => (ret[1] = 0 /\ cpc = "exited" /\ logv[Line("Cloning complete")] = 1)

C6_Witness == Called /\ repos = 0 /\ ret = <<0>> /\ workers = MaxWorkers

Exited == exitCode # -1
\* the run the exit-code contract calls fully successful
FullSuccess ==
    /\ Returned /\ ret = <<0>>
    /\ \/ ~skipTar /\ outFile = "archive" /\ staging = "removed"
       \/ skipTar /\ staging = "renamed"

\* C7: main hands cloneRepos a worker count of at least 1, the pool has
\* min(workers, N) workers, and so with N >= 1 at least one worker receives.
C7_AtLeastOneWorker ==
    (Called /\ repos >= 1) =>
        /\ workers >= 1
        /\ nworkers = Min(workers, repos)
        /\ nworkers >= 1

\* C8: the process ends with status 0 exactly on a fully successful run (archive
\* written, or staged directory kept with -skiptar), and non-zero otherwise.
C8_ExitCodeContract == Exited => (exitCode = 0 <=> FullSuccess)

\* C9: a process that ends after at least one clone failed has written the final
\* message with the number of failed jobs.
C9_FinalFailureMessage ==
    (Exited /\ NumFailed >= 1) =>
        \E i \in 1..Len(stderr) : stderr[i][2] = "failures" /\ stderr[i][3] = NumFailed

\* C10: once a clone has failed, and after cloneRepos has returned its error, main
\* never enters the archive phase: no compressToFile / compress, no rename of the
\* staging directory, no archive written.
C10_NoArchiveAfterFailure ==
    (NumFailed >= 1 \/ (Returned /\ ret # <<0>>)) =>
        /\ mpc \notin {"rename", "compressToFile", "compress"}
        /\ compressCalls = 0
        /\ staging # "renamed"
        /\ outFile \notin {"archive", "partial"}

C10_Witness == Exited /\ Returned /\ ret[1] >= 1 /\ NumFailed >= 1 /\ OkJobs # {}

Compressed == compressCalls >= 1          \* compress has run
\* the names the staging tree calls for: the root, and per cloned destination its
\* directory and its file
ExpectedNames ==
    {<<"codepack">>}
    \cup {<<"codepack", d>> : d \in ClonedDests}
    \cup {<<"codepack", d, "HEAD">> : d \in ClonedDests}
ArchiveNames == {archive[i] : i \in 1..Len(archive)}

\* C11: compress writes no name twice and only names "codepack/<relative path>" of
\* entries of the tree, the root as "codepack"; a walk that no I/O failure hits
\* writes exactly one entry per entry of the tree, the root first, and for an empty
\* tree exactly the root entry.
C11_OneEntryPerTreeEntry ==
    Compressed =>
        /\ \A i, k \in 1..Len(archive) : archive[i] = archive[k] => i = k
        /\ ArchiveNames \subseteq ExpectedNames
        /\ compressCalls = 1
        /\ walkFail = <<>> =>
            /\ ArchiveNames = ExpectedNames
            /\ archive[1] = <<"codepack">>
            /\ ClonedDests = {} => archive = << <<"codepack">> >>

C11_Witness ==
    /\ Compressed /\ walkFail = <<>> /\ repos = MaxRepos
    /\ Len(archive) = 1 + 2 * MaxRepos

\* C12: compress returns an error whenever an I/O failure hit the walk, and never
\* returns nil for an archive that lacks entries of the tree.
C12_WalkFailureReported ==
    Compressed =>
        /\ walkFail # <<>> => archRet = "err"
        /\ archRet = "nil" => ArchiveNames = ExpectedNames

CleanupLogged == logv[Line("Cleaning up temporary directory...")]

\* C13: a run whose archive phase returned nil runs the cleanup and ends with the
\* staging directory removed (or, when the removal itself fails, with a non-zero
\* status); with -skiptar the directory is never removed, and a run whose clones all
\* succeeded ends with it renamed (or, when the rename fails, with Exit's error
\* status) and without compress having run.
C13_StagingRemovedOrRenamed ==
    /\ (Exited /\ archRet = "nil") =>
        /\ CleanupLogged = 1
        /\ staging = "removed" \/ (staging = "temp" /\ exitCode # 0)
    /\ (Exited /\ exitCode = 0) => staging = "removed"
    /\ skipTar => (staging # "removed" /\ CleanupLogged = 0)
    /\ (Exited /\ skipTar /\ Returned /\ ret = <<0>>) =>
        /\ staging = "renamed" \/ (staging = "temp" /\ exitCode = Exit(TRUE))
        /\ compressCalls = 0

C13_Witness ==
    /\ Exited /\ archRet = "nil" /\ staging = "removed" /\ exitCode = 0
    /\ repos = MaxRepos /\ outFile = "archive"

\* C14: a run whose archive phase returned an error ends with the staging
\* directory still on disk: the deferred cleanup has not run.
C14_StagingKeptOnArchiveFailure ==
    (Exited /\ archRet = "err") => (staging = "temp" /\ CleanupLogged = 0)

Busy == {w \in Pool : ~Idle(w)}                       \* workers holding a job
InFlight == {j \in Jobs : \E w \in Busy : wreq[w] = j}  \* jobs handed over, not completed
Ceiling == IF Min(workers, repos) > 0 THEN Min(workers, repos) ELSE 0

\* C15: at every moment at most min(W, N) jobs are handed over and not completed,
\* each held by a worker of its own, and a job is handed over only to a worker that
\* is waiting at its receive.
C15_ConcurrencyCeiling ==
    /\ [](Called =>
            /\ Cardinality(InFlight) <= Ceiling
            /\ Cardinality(Busy) = Cardinality(InFlight)
            /\ \A j \in InFlight : claimed[j] = 1 /\ j < iter)
    /\ [][(mpc = "send" /\ iter' # iter) =>
            \E w \in Pool : wpc[w] = "recv" /\ wpc'[w] = "sendstart" /\ wreq'[w] = iter]_vars

\* the pool is full and the dispatcher waits with the next job
C15_Witness ==
    /\ mpc = "send" /\ repos = MaxRepos /\ nworkers >= 1
    /\ Cardinality(InFlight) = Ceiling
    /\ \A w \in Pool : wpc[w] # "recv"

\* C16: the destination paths of the dispatched jobs of an accepted repository list
\* are pairwise distinct, and no two workers are inside the clone call with the same
\* destination path at the same time.
C16_DistinctDestinations ==
    Called =>
        /\ \A i, j \in Dispatched : i # j => ClonePath(i) # ClonePath(j)
        /\ \A v, w \in Pool :
              (v # w /\ wpc[v] = "clone" /\ wpc[w] = "clone")
                  => ClonePath(wreq[v]) # ClonePath(wreq[w])

CompleteLogged == logv[Line("Cloning complete")]
\* every message the workers produce for job j has been logged: the start, and the
\* outcome message the build sends (part_000 sends none for a success)
JobLogged(j) ==
    /\ logv[Msg("Cloning", j)] = 1
    /\ j \in FailedJobs \cup OkJobs
    /\ j \in FailedJobs => logv[Msg("failed", j)] = 1
    /\ (j \in OkJobs /\ build = "main.go") => logv[Msg("Cloned", j)] = 1

\* C17: a job's start message is logged before its outcome message; when "Cloning
\* complete" is logged every message of every job has been logged and none is logged
\* afterwards; cloneRepos returns only after "Cloning complete" has been logged.
C17_LogOrder ==
    /\ [](/\ \A j \in Jobs : Terminal(j) >= 1 => logv[Msg("Cloning", j)] = 1
          /\ CompleteLogged >= 1 =>
                /\ \A j \in Dispatched : JobLogged(j)
                /\ \A w \in Pool : Idle(w)
          /\ Returned => CompleteLogged = 1)
    /\ [][CompleteLogged >= 1 =>
            \A l \in Kinds \X Jobs : logv'[l] = logv[l]]_vars

C17_Witness ==
    /\ Returned /\ CompleteLogged = 1 /\ repos = MaxRepos /\ build = "main.go"
    /\ FailedJobs # {} /\ OkJobs # {}
    /\ \A j \in Dispatched : JobLogged(j) /\ Terminal(j) = 1

Hung == {w \in Pool : wpc[w] = "hung"}        \* workers inside a call that never returns
HungJobs == {wreq[w] : w \in Hung}
\* every job but the hung one has been claimed, completed, logged and counted
OthersDone ==
    /\ \A j \in Dispatched \ HungJobs : claimed[j] = 1 /\ JobLogged(j)
    /\ \A w \in Pool \ Hung : Idle(w)
    /\ successes + failures = repos - 1
    /\ successes = Cardinality(OkJobs) /\ failures = Cardinality(FailedJobs)

\* C18: with one clone call that never returns, cloneRepos never returns and "done"
\* is never sent to the collector; with W >= 2 every other job is still claimed,
\* completed, logged and counted.
C18_HungCloneStalls ==
    /\ [](Hung # {} =>
            /\ ~Returned /\ ~DoneTaken /\ CompleteLogged = 0
            /\ mpc \in {"add", "send", "wait1"}
            /\ wg >= 1)
    /\ (Hung # {} /\ workers >= 2) ~> (OthersDone /\ mpc = "wait1")

C18_Witness ==
    /\ Hung # {} /\ workers >= 2 /\ repos = MaxRepos /\ nworkers >= 2
    /\ OthersDone /\ mpc = "wait1" /\ ~Returned

\* cloneRepos is at or past the read of failures
AtRead == Called /\ mpc \notin {"cloneRepos", "add", "send", "wait1", "add2", "senddone", "wait2"}

\* C19: at the read of failures after the last wg.Wait, successes + failures = N,
\* every worker is blocked at its receive, and no counter is incremented afterwards.
C19_CountersFinalAtRead ==
    /\ [](AtRead =>
            /\ successes + failures = repos
            /\ successes = Cardinality(OkJobs) /\ failures = Cardinality(FailedJobs)
            /\ \A w \in Pool : wpc[w] = (IF w <= nworkers THEN "recv" ELSE "none"))
    /\ [][AtRead => (successes' = successes /\ failures' = failures)]_vars

C19_Witness ==
    /\ mpc = "load" /\ repos = MaxRepos /\ nworkers = MaxWorkers
    /\ successes >= 1 /\ failures >= 1 /\ successes + failures = repos

\* main is past the first wg.Wait() / past the second wg.Wait()
PastWait1 == Called /\ mpc \notin {"cloneRepos", "add", "send", "wait1"}
PastWait2 == AtRead

\* C20: the WaitGroup counter is never negative, the first wg.Wait does not return
\* while a dispatched job is unfinished, and the second wg.Wait does not return
\* before the collector has processed "done".
C20_WaitGroupSafe ==
    /\ wg >= 0
    /\ wg = (IF mpc = "send" THEN 1 ELSE 0)
            + Cardinality(Busy)
            + (IF mpc \in {"senddone", "wait2"} /\ cpc # "exited" THEN 1 ELSE 0)
    /\ PastWait1 =>
          /\ iter = repos + 1
          /\ \A j \in Dispatched : claimed[j] = 1 /\ j \in FailedJobs \cup OkJobs
          /\ \A w \in Pool : Idle(w)
    /\ PastWait2 => cpc = "exited" /\ CompleteLogged = 1

C20_Witness ==
    /\ mpc = "load" /\ cpc = "exited" /\ wg = 0 /\ repos = MaxRepos
    /\ \A j \in Dispatched : claimed[j] = 1

====
